---- MODULE Spec2Model ----
(***************************************************************************)
(* Resumable synchronisation pipeline of producthunt-mcp-research:         *)
(* the single-entity sync loops (syncPosts / syncTopics / syncCollections),*)
(* the round-robin syncAll, the CLI entry point and the cursor file        *)
(* managed by CursorManager; CursorManager at the level of its fs calls;   *)
(* the RateLimiter and the retrying API clients that draw from it.         *)
(*                                                                         *)
(* Cursors are opaque strings in the program.  Here the remote sequence of *)
(* an entity type is the items 1..remoteLen[t], and the cursor of item k   *)
(* is the number k; None (0) stands for null / undefined / "" (all falsy). *)
(***************************************************************************)
EXTENDS Integers, Sequences, FiniteSets, TLC

VARIABLES
    remoteLen,   \* [Types -> Nat]: number of items the remote API holds per type
    endless,     \* TRUE: the remote never runs out (hasNextPage always true)
    pageInfo,    \* how the remote's pageInfo.hasNextPage relates to what is left
    faults,      \* failures the environment may inject: any number, or `left` more
    cursorFile,  \* data/sync-cursors.json: whether it exists, and its cursor per type
    runs,        \* number of invocations started so far
    cmd,         \* command the process is running: "none", "single", "all"
    pc,          \* position inside the single-entity sync function
    entity,      \* which of the three sync functions is running
    opts,        \* SyncOptions of the running sync function
    cursor,      \* local `cursor`
    hasMore,     \* local `hasMore`
    stats,       \* local `stats`
    page,        \* the FetchResult being processed
    failure,     \* the failure the sync function returned, if it did
    apc,         \* position inside syncAll
    aopts,       \* SyncOptions of syncAll
    tCursor,     \* topicsCursor / collectionsCursor / postsCursor
    tFetched,    \* topicsFetched / collectionsFetched / postsFetched
    astats,      \* syncAll's aggregated stats
    hasProgress, \* syncAll's `hasProgress`
    hist,        \* observations of the run (not program state)
    disk,        \* sync-cursors.json at the level of the fs calls
    cm,          \* the CursorManager call in progress, and what it observed
    now,         \* Date.now(), in ticks
    limiter,     \* the RateLimiter instances: tokens and lastRefill of each
    client,      \* the query each API client has in flight
    traffic,     \* tokens acquired and remote calls issued so far
    retryConfig, \* the RetryConfig the clients were built with
    answers      \* how the remote API may answer a request in this run

vars == <<remoteLen, endless, pageInfo, faults, cursorFile, runs, cmd, pc, entity, opts, cursor,
          hasMore, stats, page, failure, apc, aopts, tCursor, tFetched, astats,
          hasProgress, hist, disk, cm, now, limiter, client, traffic, retryConfig,
          answers>>

envVars  == <<remoteLen, endless, pageInfo>>   \* the remote data: never changes
syncVars == <<pc, entity, opts, cursor, hasMore, stats, page, failure>>
allVars  == <<apc, aopts, tCursor, tFetched, astats, hasProgress>>
storeVars == <<disk, cm>>
queryEnv == <<retryConfig, answers>>   \* fixed during a run
limiterVars == <<now, limiter, client, traffic, queryEnv>>
\* the orchestrator's variables, and those of the components followed on their own
orchVars == <<envVars, faults, cursorFile, runs, cmd, syncVars, allVars, hist>>
partVars == <<storeVars, limiterVars>>

----------------------------------------------------------------------------
(* Bounds of the model *)

RemoteLen == 3      \* longest remote sequence
MaxOptItems == 3    \* largest explicit maxItems of a single-entity sync
MaxOptBatch == 2    \* largest explicit batchSize
MaxShare == 3       \* syncAll: largest explicit maxItems is NumTypes * MaxShare
MaxFaults == 2      \* syncAll: failed fetches and failed saves in one run
BurstLimit == 2     \* rate limiter: config.burstLimit
TicksPerToken == 2  \* rate limiter: clock ticks in 1000 / requestsPerSecond ms
MaxTime == 4        \* rate limiter: clock ticks followed
MaxAttempts == 2    \* retry: config.maxAttempts

(* Program constants *)

DefaultPostsMaxItems == 100
DefaultPostsBatchSize == 5
DefaultListMaxItems == 100000
DefaultListBatchSize == 10
DefaultAllMaxItems == 100
DefaultAllBatchSize == 5
NumTypes == 3

----------------------------------------------------------------------------
(* Values *)

None == 0
Types == {"topics", "collections", "posts"}
NoCursors == [t \in Types |-> None]
NoFile == [exists |-> FALSE, cur |-> NoCursors]

Min(a, b) == IF a <= b THEN a ELSE b
Max(a, b) == IF a >= b THEN a ELSE b

\* Counters that grow without limit when a loop never ends (stats.errors, the
\* page log) are followed exactly up to Cap; beyond it Cap stands for
\* "Cap or more".
Cap == RemoteLen + 1
Bump(n) == Min(n + 1, Cap)

\* a fetch or a save may fail while the environment has failures left
AnyFaults == [limited |-> FALSE, left |-> 0]
AtMost(n) == [limited |-> TRUE, left |-> n]
MayFail == ~faults.limited \/ faults.left > 0
Spend == IF faults.limited THEN [faults EXCEPT !.left = @ - 1] ELSE faults

ZeroStats == [totalFetched |-> 0, totalSaved |-> 0, errors |-> 0, nextCursor |-> None]
NoPage == [start |-> None, count |-> 0, hasMore |-> FALSE, nextCursor |-> None]
NoOpts == [cursor |-> None, maxItems |-> 0, batchSize |-> 0]

\* error messages of the fetcher
FetchErrors == {"Network error", "HTTP 500"}
NoFailure == [kind |-> "none", type |-> "none", message |-> "none"]

----------------------------------------------------------------------------
(* The remote API seen through FetcherService.fetchX: one page of at most    *)
(* `first` items after cursor `after`.                                       *)

PageCount(t, first, after) ==
    IF endless THEN first
    ELSE Max(0, Min(first, remoteLen[t] - after))

PageEnd(t, first, after) ==
    IF endless THEN ((after + first - 1) % remoteLen[t]) + 1
    ELSE after + PageCount(t, first, after)

\* pageInfo.hasNextPage, which fetchX hands on as hasMore: exact (items are left
\* after the page), or an over-estimate: true on every page that holds items, or
\* true on every page
PageInfos == {"exact", "nonempty", "always"}
HasNextPage(t, n, after) ==
    CASE pageInfo = "exact" -> after + n < remoteLen[t]
      [] pageInfo = "nonempty" -> n > 0
      [] OTHER -> TRUE

FetchResult(t, first, after) ==
    LET n == PageCount(t, first, after) IN
    [start      |-> after,
     count      |-> n,
     hasMore    |-> IF endless THEN TRUE ELSE HasNextPage(t, n, after),
     \* endCursor || undefined
     nextCursor |-> IF n = 0 THEN None ELSE PageEnd(t, first, after)]

\* the items of a page, as positions of the remote sequence
PageItems(t, p) ==
    IF endless THEN {((p.start + i - 1) % remoteLen[t]) + 1 : i \in 1..p.count}
    ELSE (p.start + 1)..(p.start + p.count)

----------------------------------------------------------------------------
(* CursorManager *)

LoadCursors == cursorFile

CursorOf(file, t) == IF file.exists THEN file.cur[t] ELSE None

\* mutant: the updated state is never written back
UpdateCursorNotWritten(file, t, c) == file

\* loadCursors() || {lastUpdated}; set or delete the key; saveCursors()
UpdateCursor(file, t, c) ==
    LET current == IF file.exists THEN file.cur ELSE NoCursors
    IN  [exists |-> TRUE, cur |-> [current EXCEPT ![t] = c]]

ClearCursors == NoFile

----------------------------------------------------------------------------
(* Single-entity sync function: syncPosts, syncTopics, syncCollections *)

MaxItemsOf(t, o) ==
    IF o.maxItems # 0 THEN o.maxItems
    ELSE IF t = "posts" THEN DefaultPostsMaxItems ELSE DefaultListMaxItems

BatchSizeOf(t, o) ==
    IF o.batchSize # 0 THEN o.batchSize
    ELSE IF t = "posts" THEN DefaultPostsBatchSize ELSE DefaultListBatchSize

\* mutant: options.cursor is ignored
InitialCursorIgnored(t, o) == None

\* let cursor = options.cursor ?? null
InitialCursor(t, o) == o.cursor

\* while (hasMore && stats.totalFetched < maxItems)
LoopHead(t, o, more, st) ==
    IF more /\ st.totalFetched < MaxItemsOf(t, o) THEN "fetch" ELSE "done"

\* mutant: a failed save is counted as saved as well
StatsAfterSaveMiscounted(st, p, ok) ==
    [st EXCEPT !.totalSaved = @ + p.count,
               !.totalFetched = @ + p.count,
               !.errors = IF ok THEN @ ELSE Bump(@),
               !.nextCursor = p.nextCursor]

\* if (saveResult.success) {...} else { stats.errors++ }; stats.nextCursor = cursor
StatsAfterSave(st, p, ok) ==
    IF ok THEN [st EXCEPT !.totalSaved = @ + p.count,
                          !.totalFetched = @ + p.count,
                          !.nextCursor = p.nextCursor]
    ELSE [st EXCEPT !.errors = Bump(@), !.nextCursor = p.nextCursor]

\* observations reset when a sync function is entered
CallHist(h) == [h EXCEPT !.log = <<>>, !.items = {}, !.firstReq = -1]

\* observations reset when a process starts
RunHist(h, file) ==
    [CallHist(h) EXCEPT
        !.startCur = [t \in Types |-> CursorOf(file, t)],
        !.lastReq = [t \in Types |-> -1],
        !.prevNext = [t \in Types |-> -1],
        !.lastNextOf = [t \in Types |-> -1],
        !.fetchFailed = [t \in Types |-> FALSE],
        !.fetchError = "none",
        !.cleared = FALSE,
        !.writeFailed = FALSE,
        !.saveFailed = [t \in Types |-> FALSE]]

\* mutant: the failure does not say what went wrong
FetchFailureWithoutCause(t, e) == [kind |-> "fetch", type |-> t, message |-> "unknown"]

\* failure(new Error(`Failed to fetch <type>: ${fetchResult.error.message}`))
FetchFailure(t, e) == [kind |-> "fetch", type |-> t, message |-> e]

BeginSync(t, o) ==
    /\ entity' = t
    /\ failure' = NoFailure
    /\ opts' = o
    /\ cursor' = InitialCursor(t, o)
    /\ hasMore' = TRUE
    /\ stats' = ZeroStats
    /\ page' = NoPage
    /\ pc' = LoopHead(t, o, TRUE, ZeroStats)

\* fetcher.service.fetchX({batchSize: min(batchSize, maxItems - totalFetched),
\* startCursor: cursor}); failure returns; an empty page breaks out of the loop
\* Math.min(batchSize, maxItems - stats.totalFetched)
FetchFirst ==
    Min(BatchSizeOf(entity, opts), MaxItemsOf(entity, opts) - stats.totalFetched)

\* the request as observed: its startCursor
FetchRequest(h) ==
    [h EXCEPT !.firstReq = IF @ = -1 THEN cursor ELSE @,
              !.lastReq[entity] = cursor,
              !.prevNext[entity] = hist.lastNextOf[entity]]

\* mutant: a failed fetch does not end the loop
FetchFailsGoesOn(req, e) ==
    /\ pc' = "fetch"
    /\ page' = NoPage
    /\ failure' = FetchFailure(entity, e)
    /\ hist' = [req EXCEPT !.fetchFailed[entity] = TRUE, !.fetchError = e]

\* if (!fetchResult.success) return failure(...)
FetchFails(req, e) ==
    /\ pc' = "failed"
    /\ page' = NoPage
    /\ failure' = FetchFailure(entity, e)
    /\ hist' = [req EXCEPT !.fetchFailed[entity] = TRUE, !.fetchError = e]

\* mutant: an empty page is processed like any other
AfterFetchSavesEmpty(p) == "save"

\* if (postNodes.length === 0) { break; }
AfterFetch(p) == IF p.count = 0 THEN "done" ELSE "save"

\* const {items, hasMore, nextCursor} = fetchResult.data; if (items.length === 0) break
FetchReturns(req) ==
    LET p == FetchResult(entity, FetchFirst, cursor) IN
    /\ failure' = failure
    /\ page' = p
    /\ pc' = AfterFetch(p)
    /\ hist' = [req EXCEPT
          !.lastNextOf[entity] = p.nextCursor,
          !.dup = @ \/ (PageItems(entity, p) \cap hist.items # {}),
          !.items = @ \cup PageItems(entity, p)]

FetchBatch ==
    /\ pc = "fetch"
    /\ \/ /\ MayFail
          /\ faults' = Spend
          /\ \E e \in FetchErrors : FetchFails(FetchRequest(hist), e)
       \/ /\ faults' = faults
          /\ FetchReturns(FetchRequest(hist))
    /\ UNCHANGED <<envVars, cursorFile, runs, cmd, entity, opts, cursor, hasMore,
                   stats, allVars>>
    /\ UNCHANGED partVars

\* repository.saveX(records), the stats update, cursor = nextCursor ?? null,
\* hasMore = page.hasMore, up to `if (cursor)`
SaveBatch ==
    /\ pc = "save"
    /\ \E ok \in BOOLEAN :
          /\ ok \/ MayFail
          /\ faults' = IF ok THEN faults ELSE Spend
          /\ stats' = StatsAfterSave(stats, page, ok)
          /\ hist' = [hist EXCEPT
                !.saveFailed[entity] = @ \/ ~ok,
                !.log = IF Len(@) < Cap
                        THEN Append(@, [start |-> page.start, count |-> page.count,
                                        next |-> page.nextCursor, ok |-> ok])
                        ELSE @]
    /\ cursor' = page.nextCursor
    /\ hasMore' = page.hasMore
    /\ pc' = IF page.nextCursor # None THEN "cursor"
             ELSE LoopHead(entity, opts, page.hasMore, stats')
    /\ UNCHANGED <<envVars, cursorFile, runs, cmd, entity, opts, page, failure, allVars>>
    /\ UNCHANGED partVars

\* await cursorManager.updateCursor(key, cursor), then the loop condition
SaveCursor ==
    /\ pc = "cursor"
    /\ cursorFile' = UpdateCursor(LoadCursors, entity, cursor)
    /\ pc' = LoopHead(entity, opts, hasMore, stats)
    /\ UNCHANGED <<envVars, faults, runs, cmd, entity, opts, cursor, hasMore, stats,
                   page, failure, allVars, hist>>
    /\ UNCHANGED partVars

----------------------------------------------------------------------------
(* CLI main(): one process per invocation *)

OptionSet ==
    [cursor : 0..RemoteLen, maxItems : 0..MaxOptItems, batchSize : 0..MaxOptBatch]

\* `topics` / `collections` / `posts` command (with or without --clearCursors),
\* or a direct call of the sync function with an explicit cursor
CliSync ==
    /\ cmd = "none"
    /\ runs = 0
    /\ \E t \in Types, o \in OptionSet, clear \in BOOLEAN :
          LET file == IF clear THEN ClearCursors ELSE cursorFile IN
          /\ o.cursor <= remoteLen[t]
          /\ clear => o.cursor = None      \* the CLI has no cursor argument
          /\ endless => o.maxItems # 0
          /\ cursorFile' = file
          /\ BeginSync(t, o)
          /\ hist' = [RunHist(hist, file) EXCEPT !.cleared = clear]
    /\ cmd' = "single"
    /\ runs' = runs + 1
    /\ UNCHANGED <<envVars, faults, allVars>>
    /\ UNCHANGED partVars

\* the same sync function is run again by a new process, with no explicit
\* cursor or with the cursor the previous run left in the cursor file
Rerun ==
    /\ cmd = "none"
    /\ runs = 1
    /\ apc = "idle"
    /\ \E explicit \in BOOLEAN :
          /\ BeginSync(entity, [opts EXCEPT !.cursor =
                  IF explicit THEN CursorOf(cursorFile, entity) ELSE None])
          /\ hist' = [RunHist(hist, cursorFile) EXCEPT
                  !.prevItems = hist.items,
                  !.prevOk = (pc = "done"),
                  !.resumed = explicit]
    /\ cmd' = "single"
    /\ runs' = runs + 1
    /\ UNCHANGED <<envVars, faults, cursorFile, allVars>>
    /\ UNCHANGED partVars

\* process.exit after the result is logged
CliExit ==
    /\ cmd = "single"
    /\ pc \in {"done", "failed"}
    /\ cmd' = "none"
    /\ UNCHANGED <<envVars, faults, cursorFile, runs, syncVars, allVars, hist>>
    /\ UNCHANGED partVars

----------------------------------------------------------------------------
(* syncAll: round-robin over topics, collections, posts *)

AllMaxItems(o) == IF o.maxItems # 0 THEN o.maxItems ELSE DefaultAllMaxItems
AllBatchSize(o) == IF o.batchSize # 0 THEN o.batchSize ELSE DefaultAllBatchSize

\* Math.floor(maxItems / 3)
ItemsPerType(o) == AllMaxItems(o) \div NumTypes

\* while (topicsFetched < itemsPerType || collectionsFetched < ... || postsFetched < ...)
RoundNeeded(o, fetched) == \E t \in Types : fetched[t] < ItemsPerType(o)

\* if (xFetched < itemsPerType && xCursor !== undefined)
TypeDue(o, t, fetched, cur) == fetched[t] < ItemsPerType(o) /\ cur[t] # None

\* mutant: every sub-batch asks for a whole batch
SubOptionsWholeBatch(o, t, fetched) ==
    [cursor |-> None, maxItems |-> AllBatchSize(o), batchSize |-> AllBatchSize(o)]

\* options handed to the sync function of a type: maxItems and batchSize only
SubOptions(o, t, fetched) ==
    LET m == Min(AllBatchSize(o), ItemsPerType(o) - fetched[t])
    IN  [cursor |-> None, maxItems |-> m, batchSize |-> m]

\* mutant: a type whose sub-batch failed keeps its cursor
CursorAfterFailureKept(cur, t) == cur

\* xCursor = undefined; // Stop trying x
CursorAfterFailure(cur, t) == [cur EXCEPT ![t] = None]

\* control after the block of type t: the next block, or the end of the round
\* (`if (!hasProgress) break`, then the while condition)
AfterType(t, fetched, progress) ==
    /\ apc' = CASE t = "topics" -> "collections"
                [] t = "collections" -> "posts"
                [] OTHER -> IF progress /\ RoundNeeded(aopts, fetched)
                            THEN "topics" ELSE "done"
    /\ hasProgress' = IF t = "posts" THEN FALSE ELSE progress

\* entry of syncAll up to the first round
BeginAll(o, file) ==
    /\ aopts' = o
    /\ tCursor' = [t \in Types |-> CursorOf(file, t)]
    /\ tFetched' = [t \in Types |-> 0]
    /\ astats' = ZeroStats
    /\ hasProgress' = FALSE
    /\ apc' = IF RoundNeeded(o, [t \in Types |-> 0]) THEN "topics" ELSE "done"

\* explicit maxItems: the multiples of 3 up to 3 * MaxShare and the values one
\* below them (floor(maxItems / 3) rounds down)
AllOptionSet ==
    [cursor : {None},
     maxItems : {m \in 2..(NumTypes * MaxShare) : m % NumTypes \in {0, NumTypes - 1}},
     batchSize : 0..MaxOptBatch]

\* `all` command, with or without --clearCursors
CliAll ==
    /\ cmd = "none"
    /\ runs = 0
    /\ \E o \in AllOptionSet, clear \in BOOLEAN :
          LET file == IF clear THEN ClearCursors ELSE cursorFile IN
          /\ cursorFile' = file
          /\ BeginAll(o, file)
          /\ hist' = [RunHist(hist, file) EXCEPT !.cleared = clear]
    /\ cmd' = "all"
    /\ runs' = runs + 1
    /\ UNCHANGED <<envVars, faults, syncVars>>
    /\ UNCHANGED partVars

\* a type's block is entered: its sync function is called, or the block is skipped
AllBatch ==
    /\ cmd = "all"
    /\ apc \in Types
    /\ pc = "idle"
    /\ IF TypeDue(aopts, apc, tFetched, tCursor)
       THEN /\ BeginSync(apc, SubOptions(aopts, apc, tFetched))
            /\ hist' = CallHist(hist)
            /\ UNCHANGED <<envVars, faults, cursorFile, runs, cmd, allVars>>
       ELSE /\ AfterType(apc, tFetched, hasProgress)
            /\ UNCHANGED <<envVars, faults, cursorFile, runs, cmd, syncVars, aopts,
                           tCursor, tFetched, astats, hist>>
    /\ UNCHANGED partVars

\* the sync function of the type returned
AllReturn ==
    /\ cmd = "all"
    /\ apc \in Types
    /\ pc \in {"done", "failed"}
    /\ pc' = "idle"
    /\ IF pc = "done"
       THEN /\ tFetched' = [tFetched EXCEPT ![apc] = @ + stats.totalFetched]
            /\ tCursor' = [tCursor EXCEPT ![apc] = stats.nextCursor]
            /\ astats' = [astats EXCEPT
                  !.totalFetched = @ + stats.totalFetched,
                  !.totalSaved = @ + stats.totalSaved,
                  !.errors = Min(@ + stats.errors, Cap)]
            /\ cursorFile' = UpdateCursor(LoadCursors, apc, stats.nextCursor)
            /\ AfterType(apc, tFetched', TRUE)
       ELSE /\ astats' = [astats EXCEPT !.errors = Bump(@)]
            /\ tCursor' = CursorAfterFailure(tCursor, apc)
            /\ AfterType(apc, tFetched, hasProgress)
            /\ UNCHANGED <<tFetched, cursorFile>>
    /\ UNCHANGED <<envVars, faults, runs, cmd, entity, opts, cursor, hasMore, stats,
                   page, failure, aopts, hist>>
    /\ UNCHANGED partVars

CliAllExit ==
    /\ cmd = "all"
    /\ apc = "done"
    /\ cmd' = "none"
    /\ UNCHANGED <<envVars, faults, cursorFile, runs, syncVars, allVars, hist>>
    /\ UNCHANGED partVars

----------------------------------------------------------------------------
(* CursorManager at the level of its fs calls.  The disk file is absent,      *)
(* complete (it parses, and holds `cur`), partial (opened for writing and     *)
(* truncated, the new content not yet fully written) or unreadable (it exists *)
(* but reading or parsing it fails).                                          *)

AbsentDisk == [state |-> "absent", cur |-> NoCursors]
PartialDisk == [state |-> "partial", cur |-> NoCursors]
UnreadableDisk == [state |-> "unreadable", cur |-> NoCursors]
CompleteDisk(c) == [state |-> "complete", cur |-> c]

\* fs.access, fs.readFile, JSON.parse inside try; catch (error) { return null }
ReadDisk(d) == IF d.state = "complete" THEN [exists |-> TRUE, cur |-> d.cur] ELSE NoFile

\* what loadCursors() hands to its caller: the state or null, never an error
LoadOutcome(d) == [done |-> TRUE, from |-> d.state, result |-> ReadDisk(d),
                   error |-> "none"]
NotLoaded == [done |-> FALSE, from |-> "none", result |-> NoFile, error |-> "none"]

\* the updateCursor call in progress or last made: its key and cursor, the
\* stored state before it, what its loadCursors returned, what it hands to
\* saveCursors; the outcomes of the clearCursors calls made since; and the
\* outcome of the loadCursors made after it
IdleManager == [pc |-> "idle", key |-> "none", value |-> None, pending |-> NoFile,
                before |-> NoFile, read |-> NoFile, crashed |-> FALSE,
                cleared |-> {}, loaded |-> NotLoaded]

\* what the loadCursors of updateCursor may return: the stored state, or null
\* when fs.access or fs.readFile fails on the file (the catch returns null
\* for every error)
ReadOutcomes(d) == {ReadDisk(d), NoFile}

\* updateCursor(type, cursor) up to the call of saveCursors
StoreUpdate ==
    /\ cm.pc = "idle"
    /\ \E t \in Types, c \in 0..1, r \in ReadOutcomes(disk) :
          cm' = [IdleManager EXCEPT
                    !.pc = "save",
                    !.key = t,
                    !.value = c,
                    !.before = ReadDisk(disk),
                    !.read = r,
                    !.pending = UpdateCursor(r, t, c)]
    /\ UNCHANGED <<disk, orchVars, limiterVars>>

\* saveCursors: fs.mkdir, then fs.writeFile opens the file, truncating it; an
\* error before that is logged and swallowed
StoreWrite ==
    /\ cm.pc = "save"
    /\ \/ /\ disk' = PartialDisk
          /\ cm' = [cm EXCEPT !.pc = "writing"]
       \/ /\ disk' = disk
          /\ cm' = [cm EXCEPT !.pc = "idle"]
    /\ UNCHANGED <<orchVars, limiterVars>>

\* fs.writeFile writes the content and closes the file; an error while writing
\* is logged and swallowed
StoreWriteEnd ==
    /\ cm.pc = "writing"
    /\ \/ disk' = CompleteDisk(cm.pending.cur)
       \/ disk' = disk
    /\ cm' = [cm EXCEPT !.pc = "idle"]
    /\ UNCHANGED <<orchVars, limiterVars>>

\* the process is killed during updateCursor; the next process starts idle
StoreCrash ==
    /\ cm.pc \in {"save", "writing"}
    /\ cm' = [cm EXCEPT !.pc = "idle", !.crashed = TRUE]
    /\ UNCHANGED <<disk, orchVars, limiterVars>>

StoreLoad ==
    /\ cm.pc = "idle"
    /\ cm' = [cm EXCEPT !.loaded = LoadOutcome(disk)]
    /\ UNCHANGED <<disk, orchVars, limiterVars>>

\* clearCursors logs 'Cleared all cursors' or, in the catch, 'No cursor file to
\* clear', and returns
ClearOutcome(d) == IF d.state = "absent" THEN "missing" ELSE "removed"

\* mutant: clearCursors leaves the file where it is
StoreClearKeepsFile ==
    /\ cm.pc = "idle"
    /\ disk' = disk
    /\ cm' = [IdleManager EXCEPT !.cleared = cm.cleared \cup {ClearOutcome(disk)}]
    /\ UNCHANGED <<orchVars, limiterVars>>

\* clearCursors: fs.unlink; a missing file is not an error
StoreClear ==
    /\ cm.pc = "idle"
    /\ disk' = AbsentDisk
    /\ cm' = [IdleManager EXCEPT !.cleared = cm.cleared \cup {ClearOutcome(disk)}]
    /\ UNCHANGED <<orchVars, limiterVars>>

----------------------------------------------------------------------------
(* RateLimiter, and the API clients that draw from it.  Time advances in      *)
(* ticks; `tokens` is kept in units of 1 / TicksPerToken token, so that one   *)
(* tick of elapsed time refills one unit and a request costs TicksPerToken.   *)

\* the RateLimiter objects that can exist: the one createFetcher makes, and
\* one per client if each client made its own
Limiters == {"fetcher"} \cup Types
OneToken == TicksPerToken
FullBucket == BurstLimit * OneToken

\* mutant: every client draws from a bucket of its own
LimiterOfClientOwn(c) == c

\* createFetcher: one `new RateLimiter(...)`, handed by ProductHuntClient to the
\* posts, topics and collections clients
LimiterOfClient(c) == "fetcher"

\* constructor: tokens = burstLimit, lastRefill = Date.now()
NewLimiter == [tokens |-> FullBucket, lastRefill |-> 0]

\* mutant: the refill is not capped
RefillTokensNever(l) == l

RefillTokensUncapped(l) ==
    [tokens |-> l.tokens + (now - l.lastRefill), lastRefill |-> now]

\* tokens = min(burstLimit, tokens + timePassed / 1000 * requestsPerSecond)
RefillTokens(l) ==
    [tokens |-> Min(FullBucket, l.tokens + (now - l.lastRefill)), lastRefill |-> now]

\* what client.request does: it returns the response, or it throws.  A thrown
\* value is described by what handleError looks at: whether it is an Error,
\* whether it carries a `response`, the response's HTTP status (0: none),
\* whether the response lists GraphQL errors, and whether the message contains
\* 'fetch', 'network' or 'timeout'.
Statuses == {0, 200, 400, 401, 404, 429, 499, 500, 503}
Response == [kind |-> "ok", isError |-> FALSE, response |-> FALSE, status |-> 0,
             gqlErrors |-> FALSE, net |-> FALSE]
Thrown ==
    {[kind |-> "thrown", isError |-> TRUE, response |-> TRUE, status |-> st,
      gqlErrors |-> g, net |-> FALSE] :
        st \in Statuses, g \in {FALSE}} \cup
    {[kind |-> "thrown", isError |-> TRUE, response |-> TRUE, status |-> 200,
      gqlErrors |-> TRUE, net |-> FALSE]} \cup
    {[kind |-> "thrown", isError |-> e, response |-> FALSE, status |-> 0,
      gqlErrors |-> FALSE, net |-> n] : e, n \in BOOLEAN}
HttpError(st) == [kind |-> "thrown", isError |-> TRUE, response |-> TRUE, status |-> st,
                  gqlErrors |-> FALSE, net |-> FALSE]
PlainError == [kind |-> "thrown", isError |-> TRUE, response |-> FALSE, status |-> 0,
               gqlErrors |-> FALSE, net |-> FALSE]

NoError == [class |-> "none", statusCode |-> 0, message |-> "none"]

\* ProductHuntErrorHandler.handleGraphQLError
HandleGraphQLError(x) ==
    IF x.status = 401
    THEN [class |-> "AuthenticationError", statusCode |-> 0,
          message |-> "Invalid API token"]
    ELSE IF x.status = 429
    THEN [class |-> "RateLimitError", statusCode |-> 0,
          message |-> "Rate limit exceeded"]
    ELSE IF x.status # 0 /\ x.status >= 500
    THEN [class |-> "ApiError", statusCode |-> x.status, message |-> "Server error"]
    ELSE IF x.gqlErrors
    THEN [class |-> "ApiError", statusCode |-> x.status, message |-> "GraphQL errors"]
    ELSE [class |-> "ApiError", statusCode |-> x.status, message |-> "original"]

\* ProductHuntErrorHandler.handleError
HandleError(x) ==
    IF x.isError
    THEN IF x.response THEN HandleGraphQLError(x)
         ELSE IF x.net
         THEN [class |-> "NetworkError", statusCode |-> 0, message |-> "original"]
         ELSE [class |-> "ApiError", statusCode |-> 0, message |-> "original"]
    ELSE [class |-> "ApiError", statusCode |-> 0, message |-> "Unknown error occurred"]

\* mutant: every error is worth another attempt
ShouldRetryAlways(e) == TRUE

\* ProductHuntErrorHandler.shouldRetry
ShouldRetry(e) ==
    IF e.class \in {"NetworkError", "ApiError"}
    THEN IF e.class = "ApiError" /\ e.statusCode # 0
         THEN IF e.statusCode >= 400 /\ e.statusCode < 500
              THEN FALSE
              ELSE e.statusCode >= 500
         ELSE TRUE
    ELSE IF e.class = "RateLimitError" THEN TRUE
    ELSE FALSE

\* mutant: a product instead of a power
PowLinear(b, n) == b * n

RECURSIVE Pow(_, _)
Pow(b, n) == IF n = 0 THEN 1 ELSE b * Pow(b, n - 1)

\* mutant: the delay is not capped
BackoffDelayUncapped(cfg, attempt) ==
    cfg.baseDelay * Pow(cfg.backoffMultiplier, attempt - 1)

\* Math.min(baseDelay * Math.pow(backoffMultiplier, attempt - 1), maxDelay)
BackoffDelay(cfg, attempt) ==
    Min(cfg.baseDelay * Pow(cfg.backoffMultiplier, attempt - 1), cfg.maxDelay)

\* new RetryError(`Operation failed after ${maxAttempts} attempts`, maxAttempts,
\* lastError), which wrapAsync turns into failure(error)
NoRetryError == [message |-> "none", attempts |-> 0, lastError |-> NoError]

\* mutant: the RetryError does not carry the last error
RetryErrorWithoutCause(cfg, e) ==
    [message |-> "Operation failed after " \o ToString(cfg.maxAttempts) \o " attempts",
     attempts |-> cfg.maxAttempts, lastError |-> NoError]

RetryError(cfg, e) ==
    [message |-> "Operation failed after " \o ToString(cfg.maxAttempts) \o " attempts",
     attempts |-> cfg.maxAttempts, lastError |-> e]

\* a client's query: where it is, the attempt of retry(), the wake-up time of
\* waitForToken's sleep, the tokens it took, the calls of client.request made,
\* what the last one did, the error of the last failed attempt, the backoff
\* delays slept so far, and the Result executeQuery returned
IdleClient == [pc |-> "idle", attempt |-> 0, wake |-> 0, tokens |-> 0, calls |-> 0,
               raw |-> Response, lastError |-> NoError, delays |-> <<>>,
               result |-> "none", error |-> NoRetryError]
NoTraffic == [acquired |-> 0, calls |-> 0, users |-> {}]

\* the retry configuration and the remote behaviour the rate limiter is followed
\* under
LimiterConfig == [maxAttempts |-> MaxAttempts, baseDelay |-> 1, maxDelay |-> 2,
                  backoffMultiplier |-> 2]
LimiterAnswers == {Response, HttpError(401), HttpError(503)}

InitLimiter ==
    /\ now = 0
    /\ limiter = [i \in Limiters |-> NewLimiter]
    /\ client = [c \in Types |-> IdleClient]
    /\ traffic = NoTraffic
    /\ retryConfig = LimiterConfig
    /\ answers = LimiterAnswers

\* the clock
Tick ==
    /\ now < MaxTime
    /\ now' = now + 1
    /\ UNCHANGED <<limiter, client, traffic, queryEnv, orchVars, storeVars>>

\* waitForToken returned: execute() goes on to fn(), the retry loop, attempt 1
ClientAfterToken(q) ==
    [IdleClient EXCEPT !.pc = "request", !.attempt = 1, !.tokens = 1]

\* waitForToken: refill; take a token and return, or sleep
\* 1000 / requestsPerSecond ms and start over
AcquireOrSleep(c) ==
    LET i == LimiterOfClient(c)
        l == RefillTokens(limiter[i])
    IN  IF l.tokens >= OneToken
        THEN /\ limiter' = [limiter EXCEPT ![i] = [l EXCEPT !.tokens = @ - OneToken]]
             /\ client' = [client EXCEPT ![c] = ClientAfterToken(client[c])]
             /\ traffic' = [traffic EXCEPT !.acquired = @ + 1,
                                           !.users = @ \cup {c}]
        ELSE /\ limiter' = [limiter EXCEPT ![i] = l]
             /\ client' = [client EXCEPT ![c] =
                              [IdleClient EXCEPT !.pc = "waiting",
                                                 !.wake = now + TicksPerToken]]
             /\ traffic' = traffic

\* executeQuery -> rateLimiter.execute -> waitForToken: on entry, and again each
\* time its sleep is over
WaitForToken(c) ==
    /\ \/ client[c].pc = "idle"
       \/ client[c].pc = "waiting" /\ now >= client[c].wake
    /\ AcquireOrSleep(c)
    /\ UNCHANGED <<now, queryEnv, orchVars, storeVars>>

\* getAvailableTokens: refill, return Math.floor(tokens)
GetAvailableTokens ==
    /\ \E i \in {LimiterOfClient(c) : c \in Types} :
          limiter' = [limiter EXCEPT ![i] = RefillTokens(limiter[i])]
    /\ UNCHANGED <<now, client, traffic, queryEnv, orchVars, storeVars>>

\* one attempt of retry() inside executeQuery, given what client.request did:
\* the response is returned; or the error is converted by handleError and the
\* loop breaks (last attempt, or shouldRetry says no) and throws RetryError, which
\* wrapAsync returns as a failure; or the delay is computed and slept
\* mutant: the loop gives up one attempt early
LastAttemptEarly(cfg, q) == q.attempt >= cfg.maxAttempts - 1

\* attempt === config.maxAttempts
LastAttempt(cfg, q) == q.attempt = cfg.maxAttempts

\* mutant: a success is not returned, the loop goes on
SucceededRetried(q, x) == [q EXCEPT !.pc = "backoff", !.calls = @ + 1, !.raw = x]

\* const result = await fn(); return result
Succeeded(q, x) ==
    [q EXCEPT !.pc = "returned", !.calls = @ + 1, !.raw = x, !.result = "ok"]

RetryStep(cfg, q, x) ==
    IF x.kind = "ok"
    THEN Succeeded(q, x)
    ELSE LET e == HandleError(x) IN
         IF LastAttempt(cfg, q) \/ ~ShouldRetry(e)
         THEN [q EXCEPT !.pc = "returned", !.calls = @ + 1, !.raw = x,
                        !.result = "failed", !.lastError = e,
                        !.error = RetryError(cfg, e)]
         ELSE [q EXCEPT !.pc = "backoff", !.calls = @ + 1, !.raw = x,
                        !.lastError = e,
                        !.delays = Append(@, BackoffDelay(cfg, q.attempt))]

\* mutant: the token of a failed call is given back
LimiterAfterCallRefunds(c, q) ==
    IF q.result = "failed"
    THEN [limiter EXCEPT ![LimiterOfClient(c)].tokens = Min(FullBucket, @ + OneToken)]
    ELSE limiter

\* execute: `return await fn()`, the limiter is not touched after the token
\* was taken
LimiterAfterCall(c, q) == limiter

\* one attempt of a query whose caller drops the Result
Request(c) ==
    /\ client[c].pc = "request"
    /\ traffic' = [traffic EXCEPT !.calls = @ + 1]
    /\ \E x \in answers :
          LET q == RetryStep(retryConfig, client[c], x) IN
          /\ client' = [client EXCEPT ![c] = IF q.pc = "returned" THEN IdleClient ELSE q]
          /\ limiter' = LimiterAfterCall(c, q)
    /\ UNCHANGED <<now, queryEnv, orchVars, storeVars>>

\* mutant: every further attempt takes a token of its own
RetryAfterSleepAcquires(c) ==
    /\ client[c].pc = "backoff"
    /\ client' = [client EXCEPT ![c].pc = "request", ![c].attempt = @ + 1,
                                ![c].tokens = @ + 1]
    /\ limiter' = [limiter EXCEPT ![LimiterOfClient(c)].tokens = Max(0, @ - OneToken)]
    /\ traffic' = [traffic EXCEPT !.acquired = @ + 1]
    /\ UNCHANGED <<now, queryEnv, orchVars, storeVars>>

\* the backoff sleep of retry() is over: the next attempt
RetryAfterSleep(c) ==
    /\ client[c].pc = "backoff"
    /\ client' = [client EXCEPT ![c].pc = "request", ![c].attempt = @ + 1]
    /\ UNCHANGED <<now, limiter, traffic, queryEnv, orchVars, storeVars>>

\* executeQuery is called by a caller that keeps the Result; no other query is
\* in flight
ExecuteQuery(c) ==
    /\ client[c].pc \in {"idle", "returned"}
    /\ \A d \in Types \ {c} : client[d].pc = "idle"
    /\ AcquireOrSleep(c)
    /\ UNCHANGED <<now, queryEnv, orchVars, storeVars>>

\* the sleep of waitForToken is over
QueryWaits(c) ==
    /\ client[c].pc = "waiting"
    /\ WaitForToken(c)

\* one attempt of the query; executeQuery's Result stays with the client
QueryAttempt(c) ==
    /\ client[c].pc = "request"
    /\ traffic' = [traffic EXCEPT !.calls = @ + 1]
    /\ \E x \in answers :
          LET q == RetryStep(retryConfig, client[c], x) IN
          /\ client' = [client EXCEPT ![c] = q]
          /\ limiter' = LimiterAfterCall(c, q)
    /\ UNCHANGED <<now, queryEnv, orchVars, storeVars>>

\* the sync loop calls fetcher.service.fetchX, which awaits the entity client's
\* executeQuery: the query enters waitForToken
FetchStart ==
    /\ pc = "fetch"
    /\ pc' = "fetching"
    /\ AcquireOrSleep(entity)
    /\ UNCHANGED <<envVars, faults, cursorFile, runs, cmd, entity, opts, cursor,
                   hasMore, stats, page, failure, allVars, hist>>
    /\ UNCHANGED <<now, queryEnv, storeVars>>

\* mutant: the sync loop goes on without awaiting the query
FetchEndNotAwaited ==
    /\ pc = "fetching"
    /\ client[entity].pc # "idle"
    /\ FetchReturns([FetchRequest(hist) EXCEPT !.lastQuery = client[entity]])
    /\ UNCHANGED <<envVars, faults, cursorFile, runs, cmd, entity, opts, cursor,
                   hasMore, stats, allVars>>
    /\ UNCHANGED <<now, limiter, client, traffic, queryEnv, storeVars>>

\* executeQuery returned its Result: fetchX passes a failure on as it is
\* (failure(result.error)), or builds the page of a success; the sync loop
\* returns the failure or goes on with the page
FetchEnd ==
    /\ pc = "fetching"
    /\ client[entity].pc = "returned"
    /\ LET q == client[entity]
           req == [FetchRequest(hist) EXCEPT !.lastQuery = q]
       IN  IF q.result = "ok" THEN FetchReturns(req)
           ELSE FetchFails(req, q.error.message)
    /\ client' = [client EXCEPT ![entity] = IdleClient]
    /\ UNCHANGED <<envVars, faults, cursorFile, runs, cmd, entity, opts, cursor,
                   hasMore, stats, allVars>>
    /\ UNCHANGED <<now, limiter, traffic, queryEnv, storeVars>>

----------------------------------------------------------------------------

InitHist ==
    [startCur |-> NoCursors, firstReq |-> -1, log |-> <<>>, items |-> {},
     lastQuery |-> IdleClient,
     dup |-> FALSE, fetchError |-> "none", cleared |-> FALSE, writeFailed |-> FALSE, prevItems |-> {}, prevOk |-> FALSE, resumed |-> FALSE,
     lastReq |-> [t \in Types |-> -1], prevNext |-> [t \in Types |-> -1],
     lastNextOf |-> [t \in Types |-> -1],
     fetchFailed |-> [t \in Types |-> FALSE], saveFailed |-> [t \in Types |-> FALSE]]

InitProgram ==
    /\ runs = 0
    /\ cmd = "none"
    /\ pc = "idle"
    /\ entity = "topics"
    /\ opts = NoOpts
    /\ cursor = None
    /\ hasMore = FALSE
    /\ stats = ZeroStats
    /\ page = NoPage
    /\ failure = NoFailure
    /\ apc = "idle"
    /\ aopts = NoOpts
    /\ tCursor = NoCursors
    /\ tFetched = [t \in Types |-> 0]
    /\ astats = ZeroStats
    /\ hasProgress = FALSE
    /\ hist = InitHist

InitParts ==
    /\ disk = AbsentDisk
    /\ cm = IdleManager
    /\ InitLimiter

Init ==
    /\ \E n \in 0..RemoteLen : remoteLen = [t \in Types |-> n]
    /\ endless = FALSE
    /\ pageInfo = "exact"
    /\ faults = AnyFaults
    /\ cursorFile = NoFile
    /\ InitProgram
    /\ InitParts

\* the cursor file as earlier invocations may have left it: absent, or holding
\* for each type no cursor or the cursor of what was its first item (the remote
\* may hold fewer items now than it did then)
CursorFiles ==
    {NoFile} \cup {[exists |-> TRUE, cur |-> c] : c \in [Types -> 0..1]}

\* remote sequences: one type holds 0..RemoteLen items, the others RemoteLen
RemoteLens ==
    {[t \in Types |-> IF t = s THEN n ELSE RemoteLen] : s \in Types, n \in 0..RemoteLen}

AllInit ==
    /\ remoteLen \in RemoteLens
    /\ endless = FALSE
    /\ pageInfo = "exact"
    /\ faults = AtMost(MaxFaults)
    /\ cursorFile \in CursorFiles
    /\ InitProgram
    /\ InitParts

NextAll == CliAll \/ AllBatch \/ AllReturn \/ FetchBatch \/ SaveBatch \/ SaveCursor
           \/ CliAllExit

AllSpec == AllInit /\ [][NextAll]_vars

\* updateCursor when the write of the cursor file fails: saveCursors catches
\* the error and logs a warning, the file stays as it was and the loop goes on
SaveCursorFails ==
    /\ pc = "cursor"
    /\ cursorFile' = cursorFile
    /\ pc' = LoopHead(entity, opts, hasMore, stats)
    /\ hist' = [hist EXCEPT !.writeFailed = TRUE]
    /\ UNCHANGED <<envVars, faults, runs, cmd, entity, opts, cursor, hasMore, stats,
                   page, failure, allVars>>
    /\ UNCHANGED partVars

\* the sync commands on a disk on which a write of the cursor file can fail
WriteNext == CliSync \/ Rerun \/ FetchBatch \/ SaveBatch \/ SaveCursor
             \/ SaveCursorFails \/ CliExit

WriteSpec == Init /\ [][WriteNext]_vars

Next == CliSync \/ Rerun \/ FetchBatch \/ SaveBatch \/ SaveCursor \/ CliExit

Spec == Init /\ [][Next]_vars

\* single-entity runs against a remote whose hasNextPage may over-estimate
PageInfoInit ==
    /\ \E n \in 0..RemoteLen : remoteLen = [t \in Types |-> n]
    /\ endless = FALSE
    /\ pageInfo \in PageInfos
    /\ faults = AnyFaults
    /\ cursorFile = NoFile
    /\ InitProgram
    /\ InitParts

PageInfoSpec == PageInfoInit /\ [][Next]_vars

\* the cursor file as any earlier process may have left it
StoreInit ==
    /\ remoteLen = [t \in Types |-> 0]
    /\ endless = FALSE
    /\ pageInfo = "exact"
    /\ faults = AnyFaults
    /\ cursorFile = NoFile
    /\ InitProgram
    /\ disk \in {AbsentDisk, UnreadableDisk} \cup {CompleteDisk(c) : c \in [Types -> 0..1]}
    /\ cm = IdleManager
    /\ InitLimiter

StoreNext == StoreUpdate \/ StoreWrite \/ StoreWriteEnd \/ StoreCrash \/ StoreLoad
             \/ StoreClear

StoreSpec == StoreInit /\ [][StoreNext]_vars

LimiterInit ==
    /\ remoteLen = [t \in Types |-> 0]
    /\ endless = FALSE
    /\ pageInfo = "exact"
    /\ faults = AnyFaults
    /\ cursorFile = NoFile
    /\ InitProgram
    /\ InitParts

LimiterNext ==
    \/ Tick
    \/ GetAvailableTokens
    \/ \E c \in Types : WaitForToken(c) \/ Request(c) \/ RetryAfterSleep(c)

LimiterSpec == LimiterInit /\ [][LimiterNext]_vars

\* callers of waitForToken, each calling once, at any time and in any order.
\* The limiter uses differences of times only (now - lastRefill, the length of
\* a sleep), so once the clock has reached MaxTime the times are kept relative
\* to it: time passing moves lastRefill and the wake-up times back instead.
Elapse ==
    /\ IF now < MaxTime
       THEN /\ now' = now + 1
            /\ UNCHANGED <<limiter, client>>
       ELSE /\ now' = now
            /\ limiter' = [i \in Limiters |->
                              [limiter[i] EXCEPT !.lastRefill = Max(0, @ - 1)]]
            /\ client' = [c \in Types |-> [client[c] EXCEPT !.wake = Max(0, @ - 1)]]
    /\ UNCHANGED <<traffic, queryEnv, orchVars, storeVars>>

\* a caller enters waitForToken
Call(c) ==
    /\ client[c].pc = "idle"
    /\ WaitForToken(c)

\* the bucket as the constructor leaves it, or as earlier calls have just
\* drained it
DrainedLimiter == [tokens |-> 0, lastRefill |-> 0]

WaitInit ==
    /\ remoteLen = [t \in Types |-> 0]
    /\ endless = FALSE
    /\ pageInfo = "exact"
    /\ faults = AnyFaults
    /\ cursorFile = NoFile
    /\ InitProgram
    /\ disk = AbsentDisk
    /\ cm = IdleManager
    /\ now = 0
    /\ \E l \in {NewLimiter, DrainedLimiter} : limiter = [i \in Limiters |-> l]
    /\ client = [c \in Types |-> IdleClient]
    /\ traffic = NoTraffic
    /\ retryConfig = LimiterConfig
    /\ answers = LimiterAnswers

WaitNext == Elapse \/ \E c \in Types : Call(c) \/ QueryWaits(c)

\* time passes, and the timer of every sleeping caller fires
WaitSpec ==
    /\ WaitInit /\ [][WaitNext]_vars
    /\ WF_vars(Elapse)
    /\ \A c \in Types : WF_vars(QueryWaits(c))

\* retry configurations: the one of the backoff example, and small ones, with
\* baseDelay below and above maxDelay
BackoffExample == [maxAttempts |-> 5, baseDelay |-> 100, maxDelay |-> 1000,
                   backoffMultiplier |-> 2]
RetryConfigs ==
    {BackoffExample} \cup
    [maxAttempts : 1..(MaxAttempts + 1), baseDelay : {1, 3}, maxDelay : {2},
     backoffMultiplier : {1, 2}]

RetryInit ==
    /\ remoteLen = [t \in Types |-> 0]
    /\ endless = FALSE
    /\ pageInfo = "exact"
    /\ faults = AnyFaults
    /\ cursorFile = NoFile
    /\ InitProgram
    /\ disk = AbsentDisk
    /\ cm = IdleManager
    /\ now = 0
    /\ limiter = [i \in Limiters |-> NewLimiter]
    /\ client = [c \in Types |-> IdleClient]
    /\ traffic = NoTraffic
    /\ retryConfig \in RetryConfigs
    /\ answers = {Response} \cup Thrown

\* the clients whose queries are followed one attempt at a time; executeQuery
\* is the base client's, the same for every entity client
QueryClients == {"posts"}

RetryNext ==
    \/ Tick
    \/ \E c \in QueryClients :
          ExecuteQuery(c) \/ QueryWaits(c) \/ QueryAttempt(c) \/ RetryAfterSleep(c)

RetrySpec == RetryInit /\ [][RetryNext]_vars

\* runs of the CLI whose fetches are queries of the entity clients; saves
\* succeed.  A single-entity run whose remote answers, fails for good (401,
\* 404) or fails for now (503); the remote holds more posts than the bucket
\* holds tokens, so that a run of page size 1 has to wait for a token:
RunAnswers == {Response, HttpError(401), HttpError(404), HttpError(503)}

RunInit ==
    /\ remoteLen = [t \in Types |-> IF t = "posts" THEN BurstLimit + 1 ELSE 1]
    /\ endless = FALSE
    /\ pageInfo = "exact"
    /\ faults = AtMost(0)
    /\ cursorFile = NoFile
    /\ InitProgram
    /\ disk = AbsentDisk
    /\ cm = IdleManager
    /\ now = 0
    /\ limiter = [i \in Limiters |-> NewLimiter]
    /\ client = [c \in Types |-> IdleClient]
    /\ traffic = NoTraffic
    /\ retryConfig = LimiterConfig
    /\ answers = RunAnswers

\* the steps of the queries in flight
QueryNext ==
    \/ Tick
    \/ \E c \in Types : QueryWaits(c) \/ QueryAttempt(c) \/ RetryAfterSleep(c)

RunNext ==
    \/ CliSync \/ CliExit
    \/ FetchStart \/ FetchEnd \/ SaveBatch \/ SaveCursor
    \/ QueryNext

RunSpec == RunInit /\ [][RunNext]_vars

\* a syncAll or single-entity run over a cursor file of an earlier run, whose
\* remote answers or fails for now (503)
RunAllAnswers == {Response, HttpError(503)}

RunAllInit ==
    /\ remoteLen = [t \in Types |-> 2]
    /\ endless = FALSE
    /\ pageInfo = "exact"
    /\ faults = AtMost(0)
    /\ cursorFile = [exists |-> TRUE, cur |-> [t \in Types |-> 1]]
    /\ InitProgram
    /\ disk = AbsentDisk
    /\ cm = IdleManager
    /\ now = 0
    /\ limiter = [i \in Limiters |-> NewLimiter]
    /\ client = [c \in Types |-> IdleClient]
    /\ traffic = NoTraffic
    /\ retryConfig = LimiterConfig
    /\ answers = RunAllAnswers

RunAllNext ==
    \/ CliSync \/ CliExit \/ CliAll \/ AllBatch \/ AllReturn \/ CliAllExit
    \/ FetchStart \/ FetchEnd \/ SaveBatch \/ SaveCursor
    \/ QueryNext

RunAllSpec == RunAllInit /\ [][RunAllNext]_vars

\* the fairness of a running process: it takes its next step
LiveInit ==
    /\ \E n \in 1..RemoteLen : remoteLen = [t \in Types |-> n]
    /\ endless = TRUE
    /\ pageInfo = "exact"
    /\ faults = AnyFaults
    /\ cursorFile = NoFile
    /\ InitProgram
    /\ InitParts

LiveSpec == LiveInit /\ [][Next]_vars /\ WF_vars(Next)

\* every type holds a single item, fewer than a share of 2 or 3
AllLiveInit ==
    /\ remoteLen = [t \in Types |-> 1]
    /\ endless = FALSE
    /\ pageInfo = "exact"
    /\ faults = AnyFaults
    /\ cursorFile \in {NoFile, [exists |-> TRUE, cur |-> [t \in Types |-> 1]]}
    /\ InitProgram
    /\ InitParts

AllLiveSpec == AllLiveInit /\ [][NextAll]_vars /\ WF_vars(NextAll)

----------------------------------------------------------------------------
(* Properties *)

RECURSIVE SumCounts(_)
SumCounts(log) == IF log = <<>> THEN 0 ELSE log[1].count + SumCounts(Tail(log))

LastPage == hist.log[Len(hist.log)]
InSingle == cmd = "single"
AtLoopBoundary == pc \in {"fetch", "done", "failed"}
AllDone == cmd = "all" /\ apc = "done"

\* C1: the first fetch of a single-entity sync uses options.cursor when given,
\* otherwise the cursor persisted for the entity, otherwise no cursor.
C1_ResumesFromPersisted ==
    (InSingle /\ hist.firstReq # -1) =>
        hist.firstReq = IF opts.cursor # None THEN opts.cursor
                        ELSE hist.startCur[entity]

C3_SyncTerminates == (InSingle /\ pc = "fetch") ~> (pc \in {"done", "failed"})

\* C4: within one run, every fetch of a type after its first one uses the
\* nextCursor returned by the preceding fetch of that type.
C4_FetchFollowsPrevious ==
    \A t \in Types : hist.prevNext[t] # -1 => hist.lastReq[t] = hist.prevNext[t]

C6_AbsentTypeSynced ==
    AllDone =>
        \A t \in Types :
            (hist.startCur[t] = None /\ ItemsPerType(aopts) > 0) =>
                /\ hist.lastReq[t] # -1
                /\ (~hist.fetchFailed[t] /\ ~hist.saveFailed[t]) =>
                       tFetched[t] >= Min(ItemsPerType(aopts), remoteLen[t])

\* C7: when syncAll ends and some type exhausted early or failed, every other
\* type whose remote holds at least floor(maxItems / 3) items and for which no
\* fetch and no save failed has fetched exactly floor(maxItems / 3) items.
C7_FairShare ==
    AllDone =>
        \A t \in Types :
            (/\ remoteLen[t] >= ItemsPerType(aopts)
             /\ ~hist.fetchFailed[t] /\ ~hist.saveFailed[t]
             /\ \E u \in Types \ {t} :
                    remoteLen[u] < ItemsPerType(aopts) \/ hist.fetchFailed[u])
            => tFetched[t] = ItemsPerType(aopts)

\* C8: syncAll terminates for every behaviour of the remote and of the persist
\* callback.
C8_AllTerminates == (cmd = "all") ~> (apc = "done")

\* C9: a page whose save fails adds exactly 1 to stats.errors, leaves
\* stats.totalSaved unchanged, does not end the sync with a failure, and the
\* in-memory and the persisted cursor advance to its nextCursor; a run of three
\* pages whose second save alone failed ends with errors = 1 and totalSaved =
\* the sizes of pages 1 and 3.
C9_FailedSaveStep ==
    (pc = "save" /\ pc' # "save" /\ stats'.errors # stats.errors) =>
        /\ stats'.errors = stats.errors + 1
        /\ stats'.totalSaved = stats.totalSaved
        /\ cursor' = page.nextCursor
        /\ pc' \in {"cursor", "fetch", "done"}

C9_AfterFailedSave ==
    (InSingle /\ AtLoopBoundary /\ hist.log # <<>> /\ ~LastPage.ok) =>
        /\ cursor = LastPage.next
        /\ CursorOf(cursorFile, entity) = LastPage.next
        /\ stats.errors = Cardinality({i \in 1..Len(hist.log) : ~hist.log[i].ok})
        /\ (pc = "failed" => page = NoPage)

C9_ThreePages ==
    /\ InSingle /\ pc = "done" /\ Len(hist.log) = 3
    /\ hist.log[1].ok /\ ~hist.log[2].ok /\ hist.log[3].ok

C10_TotalFetchedCountsApi ==
    (InSingle /\ pc = "done") => stats.totalFetched = SumCounts(hist.log)

\* C11: the items fetched from the remote API in one single-entity sync (the
\* pages processed so far and the page in hand) never exceed maxItems, whatever
\* the persist outcomes are.
C11_MaxItemsCeiling ==
    InSingle =>
        SumCounts(hist.log) + (IF pc = "save" THEN page.count ELSE 0)
            <= MaxItemsOf(entity, opts)

\* C12: when a fetch fails inside a single-entity sync, the function returns a
\* failure carrying the fetcher's error message; the failing step and every later
\* step of that process leave the cursor file, the stats and the processed pages
\* as they were, and no further fetch is issued.
C12_FailingFetchStep ==
    (pc = "fetch" /\ pc' = "failed") =>
        /\ failure'.kind = "fetch" /\ failure'.type = entity
        /\ failure'.message = hist'.fetchError
        /\ failure'.message \in FetchErrors
        /\ cursorFile' = cursorFile /\ stats' = stats /\ hist'.log = hist.log

C12_AfterFailure ==
    (InSingle /\ pc = "failed") =>
        /\ pc' = "failed" /\ failure' = failure
        /\ cursorFile' = cursorFile /\ stats' = stats
        /\ hist'.log = hist.log /\ hist'.lastReq = hist.lastReq

C12_FetchFailureAborts == [][C12_FailingFetchStep /\ C12_AfterFailure]_vars

C12_Witness ==
    /\ cmd = "none" /\ runs = 1 /\ pc = "failed"
    /\ failure = FetchFailure(entity, "HTTP 500")
    /\ Len(hist.log) = 1 /\ stats.totalSaved = 1
    /\ CursorOf(cursorFile, entity) = 1

\* C13: in syncAll, the return of a failed sub-batch of a type adds 1 to
\* stats.errors and leaves the cursor file alone; no further sub-batch of that
\* type is started in the invocation; syncAll still ends normally, and it never
\* ends while another type is still due (below its share, with a cursor).
C13_FailedBatchStep ==
    (cmd = "all" /\ pc = "failed" /\ pc' = "idle") =>
        /\ astats'.errors = Bump(astats.errors)
        /\ cursorFile' = cursorFile
        /\ ~TypeDue(aopts, apc, tFetched', tCursor')

C13_FailedTypeStopped ==
    \A t \in Types :
        (cmd = "all" /\ hist.fetchFailed[t] /\ ~(apc = t /\ pc = "failed")) =>
            /\ ~TypeDue(aopts, t, tFetched, tCursor)
            /\ ~(apc = t /\ pc \in {"fetch", "save", "cursor"})

C13_OthersNotAborted ==
    AllDone => \A u \in Types : ~TypeDue(aopts, u, tFetched, tCursor)

C13_TypeErrorIsolated ==
    /\ [][C13_FailedBatchStep]_vars
    /\ [](C13_FailedTypeStopped)
    /\ [](C13_OthersNotAborted)

C13_Witness ==
    /\ AllDone /\ AllBatchSize(aopts) = 1 /\ ItemsPerType(aopts) = 2
    /\ hist.fetchFailed["topics"] /\ hist.startCur["topics"] # None
    /\ tFetched["topics"] = 0 /\ astats.errors = 1
    /\ tFetched["posts"] = 2

\* C14: a syncAll started with --clearCursors finds the cursor store empty when
\* it starts, the first fetch of a type has no cursor, and when the run ends
\* every type with a positive share has been fetched.
C14_ClearedStartsFromBeginning ==
    (cmd = "all" /\ hist.cleared) =>
        /\ hist.startCur = NoCursors
        /\ \A t \in Types :
              (hist.lastReq[t] # -1 /\ hist.prevNext[t] = -1) => hist.lastReq[t] = None
        /\ (apc = "done" /\ ItemsPerType(aopts) > 0) =>
              \A t \in Types : hist.lastReq[t] # -1

\* C15: no step of a running syncAll removes the persisted cursor of a type or
\* the cursor file.
C15_StepKeepsCursors ==
    cmd = "all" =>
        /\ cursorFile.exists => cursorFile'.exists
        /\ \A t \in Types :
              CursorOf(cursorFile, t) # None => CursorOf(cursorFile', t) # None

C15_CursorsNeverRemoved == [][C15_StepKeepsCursors]_vars

\* C16: when the process was killed during updateCursor, the next loadCursors
\* sees the complete state from before the update or the complete state after
\* it, and never finds a partially written file.
C16_AtomicCursorWrite ==
    (cm.crashed /\ cm.loaded.done) =>
        /\ cm.loaded.result \in {cm.before, cm.pending}
        /\ cm.loaded.from # "partial"

\* C17: loadCursors reports "absent" without failing when there is no cursor
\* file, and fails with a store-unavailable error, instead of reporting
\* "absent", when the file exists but cannot be read or parsed.
C17_LoadTellsCorruption ==
    cm.loaded.done =>
        /\ cm.loaded.from = "absent" =>
              (cm.loaded.result = NoFile /\ cm.loaded.error = "none")
        /\ cm.loaded.from \in {"partial", "unreadable"} =>
              cm.loaded.error = "StoreUnavailable"

\* C18: the token count of every RateLimiter stays between 0 and burstLimit,
\* whatever the interleaving of waitForToken / execute / getAvailableTokens.
C18_TokenBucketBound ==
    \A i \in Limiters : 0 <= limiter[i].tokens /\ limiter[i].tokens <= FullBucket

C18_Witness ==
    /\ limiter["fetcher"].tokens < OneToken
    /\ \E c \in Types : client[c].pc = "waiting"
    /\ \E c \in Types : client[c].pc = "request"
    /\ now > 0

\* C19: the remote API calls issued so far, retries included, never outnumber
\* the tokens taken from the rate limiter so far.
C19_EveryCallHasToken == traffic.calls <= traffic.acquired

\* C20: all three clients draw from the same RateLimiter, and the tokens they
\* have acquired together by time t number at most burstLimit +
\* requestsPerSecond * t.
C20_OneSharedBucket ==
    /\ \A c, d \in Types : LimiterOfClient(c) = LimiterOfClient(d)
    /\ traffic.acquired * OneToken <= FullBucket + now

C20_Witness ==
    /\ traffic.users = Types
    /\ traffic.acquired = BurstLimit + 1
    /\ traffic.acquired * OneToken = FullBucket + now

----------------------------------------------------------------------------
(* Properties of retry() and executeQuery *)

QueryFailed(c) == client[c].pc = "returned" /\ client[c].result = "failed"
QuerySucceeded(c) == client[c].pc = "returned" /\ client[c].result = "ok"

\* C22: when every call of the function fails with an error shouldRetry accepts,
\* retry calls it exactly maxAttempts times (and never more than that), and
\* executeQuery returns the failure of a RetryError whose attempts is maxAttempts
\* and whose message is 'Operation failed after <maxAttempts> attempts'.
C22_RetryTermination ==
    \A c \in Types :
        /\ client[c].calls <= retryConfig.maxAttempts
        /\ (QueryFailed(c) /\ ShouldRetry(client[c].lastError)) =>
               /\ client[c].calls = retryConfig.maxAttempts
               /\ client[c].error.attempts = retryConfig.maxAttempts
               /\ client[c].error.message =
                      "Operation failed after " \o ToString(retryConfig.maxAttempts)
                          \o " attempts"

C22_Witness ==
    \E c \in Types :
        /\ QueryFailed(c)
        /\ retryConfig.maxAttempts = 3
        /\ client[c].raw = HttpError(503)
        /\ client[c].calls = 3
        /\ client[c].error.message = "Operation failed after 3 attempts"

\* C23: when shouldRetry refuses the error of attempt k, retry sleeps no more
\* and calls the function no more: it was called k times, slept k - 1 times, and
\* the RetryError's lastError is that error.
C23_StopsOnNonRetryable ==
    \A c \in Types :
        (QueryFailed(c) /\ ~ShouldRetry(HandleError(client[c].raw))) =>
            /\ client[c].calls = client[c].attempt
            /\ Len(client[c].delays) = client[c].attempt - 1
            /\ client[c].error.lastError = HandleError(client[c].raw)

C23_Witness ==
    \E c \in Types :
        /\ QueryFailed(c)
        /\ retryConfig.maxAttempts = 3
        /\ client[c].raw = HttpError(404)
        /\ client[c].attempt = 2
        /\ client[c].calls = 2
        /\ Len(client[c].delays) = 1

\* C24: a success at attempt k <= maxAttempts, after k - 1 retryable failures,
\* is returned by retry and by executeQuery: the function was called k times,
\* retry slept k - 1 times, and nothing is called or slept after it.
C24_FirstSuccessReturned ==
    \A c \in Types :
        (client[c].calls > 0 /\ client[c].raw = Response) =>
            /\ QuerySucceeded(c)
            /\ client[c].calls = client[c].attempt
            /\ client[c].attempt <= retryConfig.maxAttempts
            /\ Len(client[c].delays) = client[c].attempt - 1

C24_Witness ==
    \E c \in Types :
        /\ QuerySucceeded(c)
        /\ client[c].calls = 2
        /\ client[c].lastError = HandleError(HttpError(429))
        /\ Len(client[c].delays) = 1

ExampleDelays == <<100, 200, 400, 800>>

\* C25 (as the code has it): with {maxAttempts: 5, baseDelay: 100, maxDelay:
\* 1000, backoffMultiplier: 2} the delays computed after the failed attempts 1,
\* 2, 3, 4 are 100, 200, 400, 800; after attempt 5, the last one, no delay is
\* computed, and the formula's value for it is the cap, 1000.
C25_BackoffSequence ==
    retryConfig = BackoffExample =>
        /\ \A c \in Types :
              /\ Len(client[c].delays) <= Len(ExampleDelays)
              /\ client[c].delays = SubSeq(ExampleDelays, 1, Len(client[c].delays))
        /\ BackoffDelay(retryConfig, 5) = 1000

C25_Witness ==
    \E c \in Types :
        /\ retryConfig = BackoffExample
        /\ client[c].delays = ExampleDelays
        /\ QueryFailed(c)
        /\ client[c].calls = 5

\* C25 as stated: the delays for attempts 1..5 are 100, 200, 400, 800, 800
C25_AsStated ==
    retryConfig = BackoffExample =>
        \A k \in 1..5 :
            BackoffDelay(retryConfig, k) = <<100, 200, 400, 800, 800>>[k]

\* the delay of the formula, computed apart from the model of retry()
FormulaDelay(k) ==
    LET d == retryConfig.baseDelay * Pow(retryConfig.backoffMultiplier, k - 1)
    IN  IF d <= retryConfig.maxDelay THEN d ELSE retryConfig.maxDelay

NotRetried(c) ==
    QueryFailed(c) /\ Len(client[c].delays) = client[c].calls - 1

\* the error of the last call was accepted: unless that call was the last
\* attempt, retry slept after it (and may have started the next attempt since)
Retried(c) ==
    client[c].calls < retryConfig.maxAttempts =>
        /\ client[c].pc \in {"backoff", "request"}
        /\ Len(client[c].delays) = client[c].calls

\* C26: a thrown error carrying HTTP status 401 becomes an AuthenticationError
\* and is not retried; 429 becomes a RateLimitError and is retried; every
\* status >= 500 is retried; every other status in [400, 500) is not retried.
C26_StatusClassification ==
    \A c \in Types :
        LET q == client[c]
            st == q.raw.status
        IN  (q.calls > 0 /\ q.raw.kind = "thrown" /\ q.raw.response) =>
                /\ st = 401 =>
                      q.lastError.class = "AuthenticationError" /\ NotRetried(c)
                /\ st = 429 =>
                      q.lastError.class = "RateLimitError" /\ Retried(c)
                /\ st >= 500 => Retried(c)
                /\ (st >= 400 /\ st < 500 /\ st \notin {401, 429}) => NotRetried(c)

C26_Witness ==
    \E c \in Types :
        /\ client[c].raw = HttpError(429)
        /\ client[c].lastError.class = "RateLimitError"
        /\ client[c].pc = "backoff"
        /\ client[c].calls = 1

\* C27: an error with no HTTP status that does not match the network/timeout
\* heuristics is not retried: executeQuery makes exactly one remote call for it
\* and returns the failure.
C27_UnknownNotRetried ==
    \A c \in Types :
        LET q == client[c] IN
        (q.calls > 0 /\ q.raw.kind = "thrown" /\ ~q.raw.response /\ ~q.raw.net) =>
            QueryFailed(c) /\ q.calls = 1

\* C29: a step that takes a token is the entry of one executeQuery into the
\* retry loop, before any remote call of that query, and takes exactly one
\* token from the bucket; a remote call is made only by a query holding its
\* token and takes none, so a query of k attempts consumes exactly one token.
C29_CompositionOrder ==
    [][\A c \in Types :
          LET q == client[c]
              r == client'[c]
              i == LimiterOfClient(c)
          IN  /\ (q.pc = "request" /\ r.calls = q.calls + 1) =>
                    /\ q.tokens = 1
                    /\ r.tokens = 1
                    /\ limiter' = limiter
                    /\ traffic'.acquired = traffic.acquired
              /\ r.tokens # q.tokens =>
                    /\ q.pc \in {"idle", "waiting", "returned"}
                    /\ r.pc \in {"request", "waiting"}
                    /\ r.calls = 0
              /\ (r.tokens = 1 /\ r.calls = 0 /\ q.pc # "request") =>
                    /\ r.pc = "request"
                    /\ traffic'.acquired = traffic.acquired + 1
                    /\ limiter'[i].tokens = RefillTokens(limiter[i]).tokens - OneToken
              /\ traffic'.acquired # traffic.acquired =>
                    \E d \in Types : client'[d].tokens = 1 /\ client'[d].calls = 0
                                      /\ client[d].pc # "request"]_vars

C29_Witness ==
    \E c \in Types :
        /\ client[c].calls = 3
        /\ client[c].tokens = 1
        /\ traffic.acquired = 1
        /\ traffic.calls = 3
        /\ limiter[LimiterOfClient(c)].tokens >= FullBucket - OneToken

InFlight == {c \in Types : client[c].pc # "idle"}

\* C21: during a syncAll or a single-entity sync run at most one remote query
\* is in flight at any time, and a query is started only when none is in
\* flight.
C21_SequentialRemoteCalls ==
    [][/\ Cardinality(InFlight) <= 1
       /\ \A c \in Types :
             (client[c].pc = "idle" /\ client'[c].pc # "idle") => InFlight = {}]_vars

C21_Witness ==
    /\ cmd = "all"
    /\ pc = "fetching"
    /\ entity = "collections"
    /\ client["collections"].pc = "backoff"
    /\ InFlight = {"collections"}
    /\ traffic.users = {"topics", "collections"}
    /\ traffic.calls = 2

\* a thrown error carrying status 401 or another 4xx status other than 429
Fatal(x) ==
    /\ x.kind = "thrown" /\ x.response
    /\ x.status >= 400 /\ x.status < 500 /\ x.status # 429

\* C28: a remote call failing with status 401 or another 4xx other than 429 is
\* the last call of its executeQuery and is followed by no backoff sleep (as
\* the first call: exactly one call, no sleep); executeQuery returns a failure
\* Result, and the single-entity sync that issued it returns a failure without
\* another fetch.
C28_FatalErrorsCostOneCall ==
    /\ \A c \in Types :
          LET q == client[c] IN
          (q.calls > 0 /\ Fatal(q.raw)) =>
              /\ QueryFailed(c)
              /\ q.calls = q.attempt
              /\ Len(q.delays) = q.attempt - 1
    /\ LET q == hist.lastQuery IN
       (q.calls > 0 /\ Fatal(q.raw)) =>
           /\ q.result = "failed"
           /\ q.calls = q.attempt
           /\ Len(q.delays) = q.attempt - 1
           /\ pc = "failed"
           /\ failure = FetchFailure(entity, q.error.message)
           /\ InFlight = {}

C28_Witness ==
    /\ pc = "failed"
    /\ hist.lastQuery.raw = HttpError(401)
    /\ hist.lastQuery.calls = 1
    /\ hist.lastQuery.delays = <<>>
    /\ Len(hist.log) = 1
    /\ traffic.calls = 2
    /\ cmd = "none"

\* C31: on every path on which retry fails, the attempts field of the
\* RetryError, and the count in its message, is the number of times the
\* function was invoked, also when shouldRetry stopped the loop early.
C31_AttemptsIsRealCount ==
    \A c \in Types :
        QueryFailed(c) =>
            /\ client[c].error.attempts = client[c].calls
            /\ client[c].error.message =
                   "Operation failed after " \o ToString(client[c].calls) \o " attempts"

\* an updateCursor call has returned and loadCursors was called after it
UpdatedAndLoaded ==
    cm.pc = "idle" /\ cm.key # "none" /\ ~cm.crashed /\ cm.loaded.done

\* C32: after updateCursor(k, c) loadCursors returns a state whose cursor for k
\* is c (none when c is absent), and whose cursors for the other keys are those
\* stored before the update, also when the read inside updateCursor failed.
C32_UpdateFramesTheRest ==
    UpdatedAndLoaded =>
        \A t \in Types :
            CursorOf(cm.loaded.result, t) =
                IF t = cm.key THEN cm.value ELSE CursorOf(cm.before, t)

EmptyPageStep == InSingle /\ pc = "fetch" /\ page'.count = 0 /\ pc' # "failed"

RECURSIVE SumOver(_, _)
SumOver(f, S) ==
    IF S = {} THEN 0
    ELSE LET t == CHOOSE x \in S : TRUE IN f[t] + SumOver(f, S \ {t})

\* what is left of the share of the type whose sub-batch is running
ShareLeft == Min(AllBatchSize(aopts), ItemsPerType(aopts) - tFetched[entity])

\* C35: during syncAll the fetched count of each type is at most itemsPerType =
\* floor(maxItems / 3), every fetch of a sub-batch requests at most
\* min(batchSize, itemsPerType - fetched so far) items and the sub-batch counts
\* no more than that, and the aggregate stats.totalFetched, the sum of the
\* types' counts, is at most maxItems.
C35_ShareBound ==
    cmd = "all" =>
        /\ \A t \in Types : tFetched[t] <= ItemsPerType(aopts)
        /\ astats.totalFetched = SumOver(tFetched, Types)
        /\ astats.totalFetched <= AllMaxItems(aopts)
        /\ pc \in {"fetch", "save", "cursor", "done"} =>
              /\ opts.maxItems = ShareLeft /\ opts.batchSize = ShareLeft
              /\ stats.totalFetched <= ShareLeft
              /\ page.count <= ShareLeft
        /\ pc = "fetch" => (FetchFirst >= 1 /\ FetchFirst <= ShareLeft)

C35_Witness ==
    /\ cmd = "all" /\ pc = "fetch"
    /\ AllBatchSize(aopts) = 2 /\ ItemsPerType(aopts) = 3
    /\ tFetched[entity] = 2
    /\ FetchFirst = 1
    /\ astats.totalFetched >= 4

\* C36: a full round of syncAll during which the aggregate fetched count did
\* not increase is the last one, no sub-batch is started after it.  Hence no
\* sub-batch of a type that already had one in this run (a full round lies
\* between the two) is started while the aggregate count is still 0.
C36_ZeroRoundIsLast ==
    [][(cmd = "all" /\ pc = "idle" /\ pc' = "fetch" /\ astats.totalFetched = 0)
          => hist.lastReq[apc] = -1]_vars

\* C37: execute(fn) starts fn only after it consumed a token; when fn returns
\* or fails the limiter is left as it was, so exactly one token was consumed
\* and none is given back, and what fn returned or threw is what the caller
\* gets.
C37_ExecuteIgnoresOutcome ==
    [][\A c \in Types :
          LET q == client[c]
              r == client'[c]
          IN  /\ (q.pc # "request" /\ r.pc = "request" /\ r.calls = 0) =>
                    /\ r.tokens = 1
                    /\ limiter'[LimiterOfClient(c)].tokens =
                           RefillTokens(limiter[LimiterOfClient(c)]).tokens - OneToken
              /\ (q.pc = "request" /\ r.pc = "returned") =>
                    /\ q.tokens = 1 /\ r.tokens = 1
                    /\ limiter' = limiter
                    /\ r.result \in {"ok", "failed"}
                    /\ r.result = "ok" => (r.raw = Response /\ r.error = NoRetryError)
                    /\ r.result = "failed" =>
                          r.error = RetryError(retryConfig, HandleError(r.raw))]_vars

C37_Witness ==
    \E c \in Types :
        /\ QueryFailed(c)
        /\ client[c].tokens = 1
        /\ now = 0
        /\ traffic.acquired = 1
        /\ limiter[LimiterOfClient(c)].tokens = FullBucket - OneToken

\* a step in which a caller's waitForToken returns
TokenTaken(c) == client[c].pc \in {"idle", "waiting"} /\ client'[c].pc = "request"

\* C38: every waitForToken call of a finite set of concurrent callers returns
\* in the end, and when it returns it has taken exactly one token from a bucket
\* that held at least one token after the refill.
C38_AcquisitionLiveness ==
    /\ \A c \in Types : (client[c].pc = "waiting") ~> (client[c].pc = "request")
    /\ [][\A c \in Types :
             LET i == LimiterOfClient(c) IN
             TokenTaken(c) =>
                 /\ RefillTokens(limiter[i]).tokens >= OneToken
                 /\ limiter'[i].tokens = RefillTokens(limiter[i]).tokens - OneToken
                 /\ client'[c].tokens = 1]_vars

C38_Witness ==
    /\ \A c \in Types : client[c].pc = "request"
    /\ traffic.acquired = NumTypes
    /\ limiter["fetcher"].tokens < OneToken
    /\ now = MaxTime

\* C39: over any sequence of sync runs against a fixed remote sequence, without
\* clearCursors, the cursor persisted for an entity type never changes to a
\* position earlier in the remote sequence than the one persisted before.
C39_CursorNeverBackward ==
    [][\A t \in Types :
          (CursorOf(cursorFile, t) # None /\ CursorOf(cursorFile', t) # None)
              => CursorOf(cursorFile', t) >= CursorOf(cursorFile, t)]_vars

\* C40: a sync run in which the durable write of a cursor failed does not
\* report a clean result: it returns failure, or stats with errors incremented.
C40_FailedWriteReported ==
    (pc = "done" /\ hist.writeFailed) => stats.errors > 0

====
